---- MODULE Spec2Model ----
(***************************************************************************)
(* Model of the quiz-submission server (backend/server.js).  The file      *)
(* holds two revisions of the server: variant 1 (lines 1-333) and variant  *)
(* 2 (lines 334-669).  `variant' selects the revision that runs.           *)
(***************************************************************************)
EXTENDS Integers, Sequences, FiniteSets, TLC

\* ---------------------------------------------------------------- bounds
MaxTimers == 3
MaxRunning == 2
MaxSubmits == 2
MaxLists == 2
MaxClock == 1

\* mongoose.connection.readyState values (server.js:130, 455-460)
Disconnected == 0
Connected == 1
Connecting == 2
Disconnecting == 3

VARIABLES
  variant,       \* 1 or 2: which revision of server.js runs
  uriSet,        \* process.env.MONGODB_URI is set
  reachable,     \* environment: a connect attempt made now would succeed
  readyState,    \* mongoose.connection.readyState
  hasClient,     \* environment: a driver client exists that monitors the server
  retryTimers,   \* pending setTimeout(connectDB, ..) set by connectDB's catch
  reconnTimers,  \* pending setTimeout(connectDB, 10000) set by on('disconnected')
  nDisc,         \* connectDB invocations suspended at await mongoose.disconnect()
  nConn,         \* connectDB invocations suspended at await mongoose.connect()
  boot           \* "init" | "awaitConnect" | "listening"

connVars == <<variant, uriSet, reachable, readyState, hasClient, retryTimers,
              reconnTimers, nDisc, nConn, boot>>

VARIABLES
  clock,         \* the server clock read by new Date() / Date.now
  nextId,        \* next _id the document constructor hands out
  store,         \* the users collection, in insertion order
  sub,           \* POST /api/users requests, one per slot
  lst,           \* GET /api/users and GET /api/admin/users requests
  hlt,           \* the last answer of GET / or GET /health
  cors,          \* the last decision of the CORS origin check
  client         \* the browser's saveUser(payload) call (frontend api.js)

reqVars == <<clock, nextId, store, sub, lst, hlt, cors, client>>

Pending == retryTimers + reconnTimers
Running == nDisc + nConn

\* ------------------------------------------------- connection manager
\* mongoose.connection.on('disconnected', ..): variant 2 schedules a
\* reconnect; variant 1 registers no handler.
OnDisconnected == IF variant = 2 THEN 1 ELSE 0

\* connectDB() with the configuration check outside the try block: the
\* error is not caught and nothing is scheduled.
ConnectDBStartNoRetry(rt, ct) ==
  IF ~uriSet
    THEN /\ retryTimers' = rt
         /\ reconnTimers' = ct
         /\ UNCHANGED <<readyState, hasClient, nDisc, nConn>>
    ELSE /\ retryTimers' = rt
         /\ reconnTimers' = ct
         /\ UNCHANGED nDisc
         /\ IF readyState = Disconnected
              THEN readyState' = Connecting /\ nConn' = nConn + 1 /\ hasClient' = FALSE
              ELSE UNCHANGED <<readyState, hasClient, nConn>>

\* The synchronous part of connectDB(), up to its first await, with rt and
\* ct the pending timers at the call.
ConnectDBStart(rt, ct) ==
  IF ~uriSet
    THEN \* throw inside try -> catch -> setTimeout(connectDB, ..)
         /\ rt + ct + 1 <= MaxTimers
         /\ retryTimers' = rt + 1
         /\ reconnTimers' = ct
         /\ UNCHANGED <<readyState, hasClient, nDisc, nConn>>
    ELSE IF variant = 2 /\ readyState # Disconnected
    THEN \* await mongoose.disconnect(): a connected connection starts closing;
         \* a connecting one closes once it has opened
         /\ readyState' = IF readyState = Connected THEN Disconnecting ELSE readyState
         /\ nDisc' = nDisc + 1
         /\ retryTimers' = rt
         /\ reconnTimers' = ct
         /\ UNCHANGED <<hasClient, nConn>>
    ELSE \* await mongoose.connect(uri, options)
         /\ retryTimers' = rt
         /\ reconnTimers' = ct
         /\ UNCHANGED nDisc
         /\ IF readyState = Disconnected
              THEN readyState' = Connecting /\ nConn' = nConn + 1 /\ hasClient' = FALSE
              ELSE IF readyState = Connecting
              THEN nConn' = nConn + 1 /\ UNCHANGED <<readyState, hasClient>>
              ELSE UNCHANGED <<readyState, hasClient, nConn>>

\* Process start: variant 1 calls connectDB() and goes on to app.listen();
\* variant 2's startServer awaits connectDB() before app.listen().
StartServer ==
  /\ boot = "init"
  /\ ConnectDBStart(retryTimers, reconnTimers)
  /\ boot' = IF variant = 2 /\ uriSet THEN "awaitConnect" ELSE "listening"
  /\ UNCHANGED <<variant, uriSet, reachable>>
  /\ UNCHANGED reqVars

RetryTimerFires ==
  /\ retryTimers > 0
  /\ Running < MaxRunning
  /\ ConnectDBStart(retryTimers - 1, reconnTimers)
  /\ UNCHANGED <<variant, uriSet, reachable, boot>>
  /\ UNCHANGED reqVars

ReconnectTimerFires ==
  /\ reconnTimers > 0
  /\ Running < MaxRunning
  /\ ConnectDBStart(retryTimers, reconnTimers - 1)
  /\ UNCHANGED <<variant, uriSet, reachable, boot>>
  /\ UNCHANGED reqVars

\* mongoose.connect() resolves: every invocation awaiting it returns.
ConnectSucceeds ==
  /\ readyState = Connecting
  /\ reachable
  /\ readyState' = IF nDisc > 0 THEN Disconnecting ELSE Connected
  /\ hasClient' = TRUE
  /\ nConn' = 0
  /\ boot' = IF boot = "awaitConnect" THEN "listening" ELSE boot
  /\ UNCHANGED <<variant, uriSet, reachable, retryTimers, reconnTimers, nDisc>>
  /\ UNCHANGED reqVars

\* A catch block that schedules the retry and throws the error on: the
\* startServer that awaits connectDB() ends in its own catch, before
\* app.listen().
ConnectFailsRaises ==
  /\ readyState = Connecting
  /\ ~reachable
  /\ Pending + nConn + OnDisconnected <= MaxTimers
  /\ readyState' = Disconnected
  /\ hasClient' = FALSE
  /\ retryTimers' = retryTimers + nConn
  /\ reconnTimers' = reconnTimers + OnDisconnected
  /\ nConn' = 0
  /\ boot' = IF boot = "awaitConnect" THEN "failed" ELSE boot
  /\ UNCHANGED <<variant, uriSet, reachable, nDisc>>
  /\ UNCHANGED reqVars

\* mongoose.connect() rejects: readyState goes back to disconnected (which
\* emits 'disconnected') and every invocation awaiting it runs its catch.
ConnectFails ==
  /\ readyState = Connecting
  /\ ~reachable
  /\ Pending + nConn + OnDisconnected <= MaxTimers
  /\ readyState' = Disconnected
  /\ hasClient' = FALSE
  /\ retryTimers' = retryTimers + nConn
  /\ reconnTimers' = reconnTimers + OnDisconnected
  /\ nConn' = 0
  /\ boot' = IF boot = "awaitConnect" THEN "listening" ELSE boot
  /\ UNCHANGED <<variant, uriSet, reachable, nDisc>>
  /\ UNCHANGED reqVars

\* mongoose.disconnect() resolves: readyState becomes disconnected (which
\* emits 'disconnected'), then every invocation awaiting it goes on to
\* mongoose.connect().
DisconnectDone ==
  /\ readyState = Disconnecting
  /\ Pending + OnDisconnected <= MaxTimers
  /\ readyState' = Connecting
  /\ hasClient' = FALSE
  /\ reconnTimers' = reconnTimers + OnDisconnected
  /\ nConn' = nConn + nDisc
  /\ nDisc' = 0
  /\ UNCHANGED <<variant, uriSet, reachable, retryTimers, boot>>
  /\ UNCHANGED reqVars

\* Environment: an established connection is lost.
ConnectionDrop ==
  /\ readyState = Connected
  /\ Pending + OnDisconnected <= MaxTimers
  /\ readyState' = Disconnected
  /\ reconnTimers' = reconnTimers + OnDisconnected
  /\ UNCHANGED <<variant, uriSet, reachable, hasClient, retryTimers, nDisc, nConn, boot>>
  /\ UNCHANGED reqVars

\* Environment: the driver's own monitoring finds the server again.
DriverReconnect ==
  /\ readyState = Disconnected
  /\ hasClient
  /\ reachable
  /\ readyState' = Connected
  /\ UNCHANGED <<variant, uriSet, reachable, hasClient, retryTimers, reconnTimers,
                 nDisc, nConn, boot>>
  /\ UNCHANGED reqVars

\* Environment: the store becomes reachable or unreachable.
ReachabilityChanges ==
  /\ reachable' = ~reachable
  /\ UNCHANGED <<variant, uriSet, readyState, hasClient, retryTimers, reconnTimers,
                 nDisc, nConn, boot>>
  /\ UNCHANGED reqVars

ConnInit ==
  /\ variant \in {1, 2}
  /\ uriSet \in BOOLEAN
  /\ reachable \in BOOLEAN
  /\ readyState = Disconnected
  /\ hasClient = FALSE
  /\ retryTimers = 0
  /\ reconnTimers = 0
  /\ nDisc = 0
  /\ nConn = 0
  /\ boot = "init"

\* ------------------------------------------------------------ strings
\* A string is a sequence of one-character strings; undefined (a key the
\* JSON body does not hold) is the one-element sequence Absent.
Absent == <<"undefined">>

RECURSIVE trimStart(_)
trimStart(s) == IF s # <<>> /\ Head(s) = " " THEN trimStart(Tail(s)) ELSE s

RECURSIVE trimEnd(_)
trimEnd(s) ==
  IF s # <<>> /\ s[Len(s)] = " " THEN trimEnd(SubSeq(s, 1, Len(s) - 1)) ELSE s

\* String.prototype.trim
trim(s) == trimEnd(trimStart(s))

LowerChar(c) == CASE c = "A" -> "a" [] c = "B" -> "b" [] OTHER -> c

\* String.prototype.toLowerCase
toLowerCase(s) == [i \in 1..Len(s) |-> LowerChar(s[i])]

\* JavaScript truthiness of a body value: undefined and "" are falsy.
Truthy(v) == v # Absent /\ v # <<>>

Digits == {"0", "1", "7"}
DigitVal(c) == CASE c = "0" -> 0 [] c = "1" -> 1 [] OTHER -> 7

RECURSIVE DigitsValue(_, _)
DigitsValue(s, acc) ==
  IF s # <<>> /\ Head(s) \in Digits
    THEN DigitsValue(Tail(s), 10 * acc + DigitVal(Head(s)))
    ELSE acc

\* parseInt(x): x as a string, leading blanks skipped, an optional sign, then
\* the longest run of digits; NaN when there is none.
parseInt(s) ==
  LET t == trimStart(s)
      signed == t # <<>> /\ Head(t) \in {"-", "+"}
      digits == IF signed THEN Tail(t) ELSE t
  IN  IF s = Absent \/ digits = <<>> \/ Head(digits) \notin Digits
        THEN [nan |-> TRUE, n |-> 0]
        ELSE [nan |-> FALSE,
              n |-> IF t[1] = "-" THEN 0 - DigitsValue(digits, 0)
                                  ELSE DigitsValue(digits, 0)]

\* parseInt(score) || 0
ScoreOf(s) == IF parseInt(s).nan THEN 0 ELSE parseInt(s).n

\* ---------------------------------------------------------- validator
\* const requiredFields = { name, email, phone, school, language }
RequiredFields == <<"name", "email", "phone", "school", "language">>

IsMissingV1(v) == ~Truthy(v) \/ trim(v) = <<>>
IsMissingV2(v) == ~Truthy(v)

\* Variant 1: the names of the fields that fail the filter, in field order.
MissingFields(b) == SelectSeq(RequiredFields, LAMBDA f : IsMissingV1(b[f]))

\* A validation step that also insists on a numeric score.
RejectedBadScore(b) ==
  \/ parseInt(b.score).nan
  \/ IF variant = 1
       THEN MissingFields(b) # <<>>
       ELSE \E i \in 1..Len(RequiredFields) : IsMissingV2(b[RequiredFields[i]])

\* The 400 of the validation step: variant 1 filters on the trimmed value;
\* variant 2 tests truthiness only.
Rejected(b) ==
  IF variant = 1
    THEN MissingFields(b) # <<>>
    ELSE \E i \in 1..Len(RequiredFields) : IsMissingV2(b[RequiredFields[i]])

\* The `missing' key of that 400: variant 2's body has none.
MissingKey(b) == IF variant = 1 THEN MissingFields(b) ELSE Absent

\* A document built without lower-casing the email.
NewUserNoLower(b, id, now) ==
  [id |-> id,
   name |-> trim(b.name),
   email |-> trim(b.email),
   phone |-> trim(b.phone),
   school |-> trim(b.school),
   language |-> trim(b.language),
   answers |-> IF b.answers = Absent THEN <<>> ELSE b.answers,
   score |-> ScoreOf(b.score),
   submittedAt |-> now]

\* A document built from the whole body, new User(req.body): _id and
\* submittedAt are the body's when it has them.
NewUserFromBody(b, id, now) ==
  [id |-> IF b.id = Absent THEN id ELSE DigitsValue(b.id, 0),
   name |-> trim(b.name),
   email |-> toLowerCase(trim(b.email)),
   phone |-> trim(b.phone),
   school |-> trim(b.school),
   language |-> trim(b.language),
   answers |-> IF b.answers = Absent THEN <<>> ELSE b.answers,
   score |-> ScoreOf(b.score),
   submittedAt |-> IF b.submittedAt = Absent THEN now ELSE DigitsValue(b.submittedAt, 0)]

\* new User({...}): _id and submittedAt are set as the document is built.
NewUser(b, id, now) ==
  [id |-> id,
   name |-> trim(b.name),
   email |-> toLowerCase(trim(b.email)),
   phone |-> trim(b.phone),
   school |-> trim(b.school),
   language |-> trim(b.language),
   answers |-> IF b.answers = Absent THEN <<>> ELSE b.answers,
   score |-> ScoreOf(b.score),
   submittedAt |-> now]

\* An answer that is a structured object: the schema's String cast rejects it.
ObjAnswer == "[object]"

\* userSchema: the five `required: true' strings must be non-empty and every
\* answer must cast to String.
SchemaValid(d) ==
  /\ \A i \in 1..Len(RequiredFields) : d[RequiredFields[i]] # <<>>
  /\ \A i \in 1..Len(d.answers) : d.answers[i] # ObjAnswer

\* The status of the catch block of POST /api/users for a rejected save().
CatchStatus(kind) ==
  IF variant = 1 /\ kind \in {"validation", "duplicate"} THEN 400 ELSE 500

\* A readiness check that lets every state but disconnected pass.
ReadyLoose == readyState # Disconnected

\* The readiness check of every handler.
Ready == readyState = Connected

\* ------------------------------------------------------------ requests
NoBody ==
  [name |-> Absent, email |-> Absent, phone |-> Absent, school |-> Absent,
   language |-> Absent, answers |-> Absent, score |-> Absent,
   submittedAt |-> Absent, id |-> Absent]

NoDoc ==
  [id |-> 0, name |-> <<>>, email |-> <<>>, phone |-> <<>>, school |-> <<>>,
   language |-> <<>>, answers |-> <<>>, score |-> 0, submittedAt |-> 0]

IdleSubmit ==
  [pc |-> "idle", body |-> NoBody, doc |-> NoDoc, status |-> 0,
   missing |-> Absent, storeOps |-> 0, failure |-> "none"]

IdleList ==
  [pc |-> "idle", admin |-> FALSE, status |-> 0, users |-> <<>>, count |-> 0,
   versionKey |-> FALSE, storeOps |-> 0, after |-> {}]

GoodBody ==
  [name |-> <<" ", "A", " ">>, email |-> <<"B", " ">>, phone |-> <<"7">>,
   school |-> <<" ", "b">>, language |-> <<"a">>, answers |-> <<"x", "y">>,
   score |-> <<"7">>, submittedAt |-> Absent, id |-> Absent]

PlainBody ==
  [name |-> <<"b">>, email |-> <<"a">>, phone |-> <<"1">>, school |-> <<"a">>,
   language |-> <<"b">>, answers |-> Absent, score |-> Absent,
   submittedAt |-> Absent, id |-> Absent]

Bodies ==
  { GoodBody,
    PlainBody,
    [GoodBody EXCEPT !.school = <<" ">>],
    [GoodBody EXCEPT !.email = Absent, !.phone = <<>>],
    [PlainBody EXCEPT !.answers = <<ObjAnswer>>] }

Slots == 1..MaxSubmits
ListSlots == 1..MaxLists

\* POST /api/users up to `await newUser.save()', for a body b.
HandleSubmit(r, b) ==
  IF ~Ready
    THEN /\ sub' = [sub EXCEPT ![r] = [IdleSubmit EXCEPT
                      !.pc = "done", !.body = b, !.status = 503]]
         /\ UNCHANGED nextId
    ELSE IF Rejected(b)
    THEN /\ sub' = [sub EXCEPT ![r] = [IdleSubmit EXCEPT
                      !.pc = "done", !.body = b, !.status = 400,
                      !.missing = MissingKey(b)]]
         /\ UNCHANGED nextId
    ELSE /\ sub' = [sub EXCEPT ![r] = [IdleSubmit EXCEPT
                      !.pc = "saving", !.body = b,
                      !.doc = NewUser(b, nextId, clock), !.storeOps = 1]]
         /\ nextId' = nextId + 1

\* A POST /api/users arrives with a body of the set B.
SubmitStart(r, B) ==
  /\ boot = "listening"
  /\ sub[r].pc = "idle"
  /\ \A q \in Slots : q < r => sub[q].pc # "idle"
  /\ \E b \in B : HandleSubmit(r, b)
  /\ UNCHANGED <<clock, store, lst, hlt, cors, client>>
  /\ UNCHANGED connVars

\* A save written as an upsert on the email: a record with the document's
\* email is replaced.
SaveSucceedsUpsert(r) ==
  /\ sub[r].pc = "saving"
  /\ SchemaValid(sub[r].doc)
  /\ readyState = Connected
  /\ store' = IF \E i \in 1..Len(store) : store[i].email = sub[r].doc.email
                THEN [i \in 1..Len(store) |->
                        IF store[i].email = sub[r].doc.email THEN sub[r].doc ELSE store[i]]
                ELSE Append(store, sub[r].doc)
  /\ sub' = [sub EXCEPT ![r].pc = "done", ![r].status = 201]
  /\ UNCHANGED <<clock, nextId, lst, hlt, cors, client>>
  /\ UNCHANGED connVars

\* save() resolves: the document is in the collection and the handler
\* answers 201.
SaveSucceeds(r) ==
  /\ sub[r].pc = "saving"
  /\ SchemaValid(sub[r].doc)
  /\ readyState = Connected
  /\ store' = Append(store, sub[r].doc)
  /\ sub' = [sub EXCEPT ![r].pc = "done", ![r].status = 201]
  /\ UNCHANGED <<clock, nextId, lst, hlt, cors, client>>
  /\ UNCHANGED connVars

\* A connected store with a unique index on email refuses document d when
\* it holds a record with that email.
DuplicateOf(d) ==
  readyState = Connected /\ \E i \in 1..Len(store) : store[i].email = d.email

\* A save() whose write is buffered while the connection is down: the
\* handler answers the error and the document is written all the same.
SaveFailsButWrites(r, kind) ==
  /\ sub[r].pc = "saving"
  /\ IF SchemaValid(sub[r].doc)
       THEN kind = "io" \/ (kind = "duplicate" /\ DuplicateOf(sub[r].doc))
       ELSE kind = "validation"
  /\ sub' = [sub EXCEPT ![r].pc = "done", ![r].status = CatchStatus(kind),
                        ![r].failure = kind]
  /\ store' = IF kind = "io" THEN Append(store, sub[r].doc) ELSE store
  /\ UNCHANGED <<clock, nextId, lst, hlt, cors, client>>
  /\ UNCHANGED connVars

\* A catch block that calls save() once more after an I/O error.
SaveFailsRetries(r, kind) ==
  /\ sub[r].pc = "saving"
  /\ IF SchemaValid(sub[r].doc)
       THEN kind = "io" \/ (kind = "duplicate" /\ DuplicateOf(sub[r].doc))
       ELSE kind = "validation"
  /\ sub' = IF kind = "io" /\ sub[r].storeOps < 2
              THEN [sub EXCEPT ![r].storeOps = @ + 1]
              ELSE [sub EXCEPT ![r].pc = "done", ![r].status = CatchStatus(kind),
                               ![r].failure = kind]
  /\ UNCHANGED <<clock, nextId, store, lst, hlt, cors, client>>
  /\ UNCHANGED connVars

\* save() rejects, nothing is written, and the catch block answers: with a
\* ValidationError when the document fails the schema, else with an I/O
\* error or a duplicate-key error (code 11000).
SaveFails(r, kind) ==
  /\ sub[r].pc = "saving"
  /\ IF SchemaValid(sub[r].doc)
       THEN kind = "io" \/ (kind = "duplicate" /\ DuplicateOf(sub[r].doc))
       ELSE kind = "validation"
  /\ sub' = [sub EXCEPT ![r].pc = "done", ![r].status = CatchStatus(kind),
                        ![r].failure = kind]
  /\ UNCHANGED <<clock, nextId, store, lst, hlt, cors, client>>
  /\ UNCHANGED connVars

Perms(n) == {p \in [1..n -> 1..n] : \A i, j \in 1..n : i # j => p[i] # p[j]}

\* A find() without the sort: the documents in insertion order.
FindUnsorted(s) == {s}

\* User.find({}).sort({ submittedAt: -1 }).lean(): every document, newest
\* first; documents of equal submittedAt come in any order.
FindSorted(s) ==
  {q \in {[i \in 1..Len(s) |-> s[p[i]]] : p \in Perms(Len(s))} :
     \A i, j \in 1..Len(s) : i < j => q[i].submittedAt >= q[j].submittedAt}

\* A list handler that calls connectDB() when it finds the connection down.
ListStartReconnects(l, admin) ==
  /\ boot = "listening"
  /\ lst[l].pc # "finding"
  /\ lst' = [lst EXCEPT ![l] =
       IF ~Ready
         THEN [IdleList EXCEPT !.pc = "done", !.admin = admin, !.status = 503]
         ELSE [IdleList EXCEPT !.pc = "finding", !.admin = admin, !.storeOps = 1,
                 !.after = {r \in Slots : sub[r].status = 201}]]
  /\ UNCHANGED <<clock, nextId, store, sub, hlt, cors, client>>
  /\ IF ~Ready /\ Running < MaxRunning
       THEN /\ ConnectDBStart(retryTimers, reconnTimers)
            /\ UNCHANGED <<variant, uriSet, reachable, boot>>
       ELSE UNCHANGED connVars

\* GET /api/users (admin = FALSE) and GET /api/admin/users (admin = TRUE) up
\* to `await User.find(..)'.
ListStart(l, admin) ==
  /\ boot = "listening"
  /\ lst[l].pc # "finding"
  /\ lst' = [lst EXCEPT ![l] =
       IF ~Ready
         THEN [IdleList EXCEPT !.pc = "done", !.admin = admin, !.status = 503]
         ELSE [IdleList EXCEPT !.pc = "finding", !.admin = admin, !.storeOps = 1,
                 !.after = {r \in Slots : sub[r].status = 201}]]
  /\ UNCHANGED <<clock, nextId, store, sub, hlt, cors, client>>
  /\ UNCHANGED connVars

\* The projection of the query: variant 1's GET /api/users has
\* .select('-__v'); the other three handlers return the version key __v that
\* save() stores with every document.
KeepsVersionKey(admin) == ~(variant = 1 /\ ~admin)

ListSucceeds(l) ==
  /\ lst[l].pc = "finding"
  /\ readyState = Connected
  /\ \E users \in FindSorted(store) :
       lst' = [lst EXCEPT ![l].pc = "done", ![l].status = 200,
                          ![l].users = users, ![l].count = Len(users),
                          ![l].versionKey = KeepsVersionKey(lst[l].admin)]
  /\ UNCHANGED <<clock, nextId, store, sub, hlt, cors, client>>
  /\ UNCHANGED connVars

ListFails(l) ==
  /\ lst[l].pc = "finding"
  /\ lst' = [lst EXCEPT ![l].pc = "done", ![l].status = 500]
  /\ UNCHANGED <<clock, nextId, store, sub, hlt, cors, client>>
  /\ UNCHANGED connVars

\* const states = { 0: .., 1: .., 2: .., 3: .. }
StateName(rs) ==
  CASE rs = Disconnected -> "Disconnected"
    [] rs = Connected -> "Connected"
    [] rs = Connecting -> "Connecting"
    [] OTHER -> "Disconnecting"

\* The `database' field of GET /: variant 1 tests readyState === 1 only.
RootDatabase ==
  IF variant = 1
    THEN (IF readyState = Connected THEN "Connected" ELSE "Disconnected")
    ELSE StateName(readyState)

\* The `database' field of GET /health.
HealthDatabase == StateName(readyState)

NoAnswer == [route |-> "none", status |-> 0, database |-> "none"]

\* GET / (route = "/") and GET /health (route = "/health"): res.json(..)
\* with the default status.
HealthRequest(route) ==
  /\ boot = "listening"
  /\ hlt' = [route |-> route, status |-> 200,
             database |-> IF route = "/" THEN RootDatabase ELSE HealthDatabase]
  /\ UNCHANGED <<clock, nextId, store, sub, lst, cors, client>>
  /\ UNCHANGED connVars

\* ---------------------------------------------------------------- CORS
\* An origin is a sequence of pieces of text; the origin is their
\* concatenation.  No piece but VercelPrefix begins with that text and no
\* piece but VercelSuffix ends with ".vercel.app".
VercelPrefix == "https://childfund-onlinetest"
VercelSuffix == ".vercel.app"

\* The strings of allowedOrigins (variant 1).
AllowedStrings ==
  { <<"http://localhost:5173">>,
    <<"http://localhost:3000">>,
    <<VercelPrefix, VercelSuffix>>,
    <<VercelPrefix, "-git-main-sudhanandhinjs-projects", VercelSuffix>>,
    <<VercelPrefix, "-sudhanandhinjs-projects", VercelSuffix>> }

\* /^https:\/\/childfund-onlinetest.*\.vercel\.app$/.test(origin)
PreviewPattern(origin) ==
  /\ Len(origin) >= 2
  /\ origin[1] = VercelPrefix
  /\ origin[Len(origin)] = VercelSuffix

\* allowedOrigins.some(..)
IsAllowed(origin) == origin \in AllowedStrings \/ PreviewPattern(origin)

\* corsOptions.origin of variant 2: a list of three strings; the middleware
\* sets the allow header for a listed origin and raises no error.
ListedOrigins ==
  { <<"http://localhost:5173">>,
    <<"http://localhost:3000">>,
    <<VercelPrefix, VercelSuffix>> }

\* The origin function as its comment says it is meant to become: an
\* origin off the list gets callback(new Error('Not allowed by CORS')).
OriginCheckStrict(origin) ==
  IF variant = 1
    THEN IF ~Truthy(origin)
           THEN [error |-> FALSE, allow |-> TRUE, listed |-> FALSE]
           ELSE IF IsAllowed(origin)
           THEN [error |-> FALSE, allow |-> TRUE, listed |-> TRUE]
           ELSE [error |-> TRUE, allow |-> FALSE, listed |-> FALSE]
    ELSE [error |-> FALSE, allow |-> origin \in ListedOrigins,
          listed |-> origin \in ListedOrigins]

\* corsOptions.origin: what the callback is called with.  Variant 1 calls
\* callback(null, true) on each of its three paths.
OriginCheck(origin) ==
  IF variant = 1
    THEN IF ~Truthy(origin)
           THEN [error |-> FALSE, allow |-> TRUE, listed |-> FALSE]
           ELSE IF IsAllowed(origin)
           THEN [error |-> FALSE, allow |-> TRUE, listed |-> TRUE]
           ELSE [error |-> FALSE, allow |-> TRUE, listed |-> FALSE]
    ELSE [error |-> FALSE, allow |-> origin \in ListedOrigins,
          listed |-> origin \in ListedOrigins]

NoCors ==
  [checked |-> FALSE, origin |-> Absent, error |-> FALSE, allow |-> FALSE,
   listed |-> FALSE, status |-> 0]

\* The Origin headers tried: none, empty, listed ones, a preview
\* deployment, and four that match nothing.
Origins ==
  { Absent,
    <<>>,
    <<"http://localhost:5173">>,
    <<VercelPrefix, VercelSuffix>>,
    <<VercelPrefix, "-sudhanandhinjs-projects", VercelSuffix>>,
    <<VercelPrefix, "-pr7", VercelSuffix>>,
    <<VercelPrefix, VercelSuffix, ".evil.example">>,
    <<"x", VercelPrefix, VercelSuffix>>,
    <<VercelPrefix>>,
    <<"http://evil.example">> }

\* app.use(cors(corsOptions)) on a request with this Origin header; an
\* error goes to the error-handling middleware, which answers 403 for a
\* message that holds 'CORS'.
CorsCheck(origin) ==
  /\ boot = "listening"
  /\ LET d == OriginCheck(origin) IN
       cors' = [checked |-> TRUE, origin |-> origin, error |-> d.error,
                allow |-> d.allow, listed |-> d.listed,
                status |-> IF d.error THEN 403 ELSE 0]
  /\ UNCHANGED <<clock, nextId, store, sub, lst, hlt, client>>
  /\ UNCHANGED connVars

\* -------------------------------------------------- client (api.js)
NoPayload ==
  [name |-> Absent, email |-> Absent, phone |-> Absent, school |-> Absent,
   language |-> Absent, answers |-> Absent, score |-> Absent]

IdleClient ==
  [pc |-> "idle", payload |-> NoPayload, clean |-> NoPayload, wakeUps |-> 0,
   woke |-> "none", posts |-> 0, outcome |-> "none", message |-> "none"]

\* requiredFields.filter(field => !payload[field]?.trim())
ClientMissing(p) ==
  SelectSeq(RequiredFields, LAMBDA f : p[f] = Absent \/ trim(p[f]) = <<>>)

\* cleanPayload
CleanPayload(p) ==
  [name |-> trim(p.name),
   email |-> toLowerCase(trim(p.email)),
   phone |-> trim(p.phone),
   school |-> trim(p.school),
   language |-> trim(p.language),
   answers |-> IF p.answers = Absent THEN <<>> ELSE p.answers,
   score |-> IF Truthy(p.score) THEN p.score ELSE <<"0">>]

\* The message saveUser's catch block throws for an error with this code
\* and this response status (0: the error has no response).
ErrorMessage(code, status) ==
  IF code = "ECONNABORTED" THEN "timeout"
  ELSE IF status = 503 THEN "database"
  ELSE IF status = 404 THEN "notfound"
  ELSE IF status = 403 THEN "denied"
  ELSE IF status >= 500 THEN "server"
  ELSE IF status = 0 THEN "offline"
  ELSE "other"

\* saveUser(payload) up to its first await: the validation throws into the
\* catch block, or wakeUpServer() sends GET /.
SaveUser(p) ==
  /\ client.pc = "idle"
  /\ client' =
       IF ClientMissing(p) # <<>>
         THEN [IdleClient EXCEPT !.pc = "done", !.payload = p,
                 !.outcome = "rejected", !.message = ErrorMessage("none", 0)]
         ELSE [IdleClient EXCEPT !.pc = "waking", !.payload = p,
                 !.clean = CleanPayload(p), !.wakeUps = 1]
  /\ UNCHANGED <<clock, nextId, store, sub, lst, hlt, cors>>
  /\ UNCHANGED connVars

\* wakeUpServer() resolves: saveUser waits two seconds.
WakeUpSucceeds ==
  /\ client.pc = "waking"
  /\ client' = [client EXCEPT !.pc = "pausing", !.woke = "ok"]
  /\ UNCHANGED <<clock, nextId, store, sub, lst, hlt, cors>>
  /\ UNCHANGED connVars

\* The two seconds are over: api.post('/api/users', cleanPayload).
PauseEnds ==
  /\ client.pc = "pausing"
  /\ client' = [client EXCEPT !.pc = "posting", !.posts = @ + 1]
  /\ UNCHANGED <<clock, nextId, store, sub, lst, hlt, cors>>
  /\ UNCHANGED connVars

\* A wake-up that fails and ends the save: no POST is sent.
WakeUpFailsAborts ==
  /\ client.pc = "waking"
  /\ client' = [client EXCEPT !.pc = "done", !.woke = "failed",
                               !.outcome = "rejected",
                               !.message = ErrorMessage("none", 0)]
  /\ UNCHANGED <<clock, nextId, store, sub, lst, hlt, cors>>
  /\ UNCHANGED connVars

\* wakeUpServer() rejects (no answer, or an answer that is not ok): the
\* inner catch logs and saveUser goes straight on to api.post(..).
WakeUpFails ==
  /\ client.pc = "waking"
  /\ client' = [client EXCEPT !.pc = "posting", !.woke = "failed", !.posts = @ + 1]
  /\ UNCHANGED <<clock, nextId, store, sub, lst, hlt, cors>>
  /\ UNCHANGED connVars

\* api.post resolves (a 2xx answer): saveUser returns the response.
PostSucceeds ==
  /\ client.pc = "posting"
  /\ client' = [client EXCEPT !.pc = "done", !.outcome = "resolved"]
  /\ UNCHANGED <<clock, nextId, store, sub, lst, hlt, cors>>
  /\ UNCHANGED connVars

\* api.post rejects: the catch block throws the mapped message.
PostFails(code, status) ==
  /\ client.pc = "posting"
  /\ client' = [client EXCEPT !.pc = "done", !.outcome = "rejected",
                               !.message = ErrorMessage(code, status)]
  /\ UNCHANGED <<clock, nextId, store, sub, lst, hlt, cors>>
  /\ UNCHANGED connVars

\* The rejections of api.post: a timeout, no answer, and the statuses the
\* server or the platform answer with.
PostErrors ==
  { <<"ECONNABORTED", 0>>, <<"ERR_NETWORK", 0>>, <<"ERR_BAD_REQUEST", 400>>,
    <<"ERR_BAD_REQUEST", 403>>, <<"ERR_BAD_REQUEST", 404>>,
    <<"ERR_BAD_RESPONSE", 500>>, <<"ERR_BAD_RESPONSE", 503>> }

\* Time passes on the server clock.
Tick ==
  /\ clock < MaxClock
  /\ clock' = clock + 1
  /\ UNCHANGED <<nextId, store, sub, lst, hlt, cors, client>>
  /\ UNCHANGED connVars

ReqInit ==
  /\ clock = 0
  /\ nextId = 1
  /\ store = <<>>
  /\ sub = [r \in Slots |-> IdleSubmit]
  /\ lst = [l \in ListSlots |-> IdleList]
  /\ hlt = NoAnswer
  /\ cors = NoCors
  /\ client = IdleClient

vars == <<connVars, reqVars>>

Init == ConnInit /\ ReqInit

Next ==
  \/ StartServer
  \/ RetryTimerFires
  \/ ReconnectTimerFires
  \/ ConnectSucceeds
  \/ ConnectFails
  \/ DisconnectDone
  \/ ConnectionDrop
  \/ DriverReconnect
  \/ ReachabilityChanges
  \/ Tick
  \/ \E r \in Slots : SubmitStart(r, Bodies)
  \/ \E r \in Slots : SaveSucceeds(r)
  \/ \E r \in Slots, kind \in {"validation", "io", "duplicate"} : SaveFails(r, kind)
  \/ \E admin \in BOOLEAN : ListStart(1, admin)
  \/ ListSucceeds(1)
  \/ ListFails(1)

Spec == Init /\ [][Next]_vars

\* One submit of any draft, and lists, on a server that has connected.
FieldValues == {Absent, <<>>, <<" ">>, <<" ", "A", " ">>, <<"B", "b">>}
AnswerValues == {Absent, <<>>, <<"y", "x">>}
ScoreValues == {Absent, <<"x">>, <<"x", "1">>, <<"1", "7", "x">>, <<"-", "7">>}

AllBodies ==
  [name : FieldValues, email : FieldValues, phone : FieldValues,
   school : FieldValues, language : FieldValues, answers : AnswerValues,
   score : ScoreValues, submittedAt : {Absent}, id : {Absent}]

InputInit ==
  /\ variant \in {1, 2}
  /\ uriSet = TRUE
  /\ reachable = TRUE
  /\ readyState = Connected
  /\ hasClient = TRUE
  /\ retryTimers = 0
  /\ reconnTimers = 0
  /\ nDisc = 0
  /\ nConn = 0
  /\ boot = "listening"
  /\ ReqInit

InputNext ==
  \/ SubmitStart(1, AllBodies)
  \/ SaveSucceeds(1)
  \/ \E kind \in {"validation", "io", "duplicate"} : SaveFails(1, kind)
  \/ \E admin \in BOOLEAN : ListStart(1, admin)
  \/ ListSucceeds(1)

SpecInput == InputInit /\ [][InputNext]_vars

\* A few drafts: a valid one, the same with client-supplied submittedAt and
\* id keys, one with a missing field and one the schema rejects.
FewBodies ==
  { GoodBody,
    [GoodBody EXCEPT !.submittedAt = <<"7">>, !.id = <<"7">>],
    [GoodBody EXCEPT !.email = Absent, !.phone = <<>>],
    [PlainBody EXCEPT !.answers = <<ObjAnswer>>] }

\* A valid draft and one with a missing field.
TwoBodies == {GoodBody, [GoodBody EXCEPT !.email = Absent, !.phone = <<>>]}

\* Every kind of request against a server whose connection comes and goes.
ServeNext ==
  \/ StartServer
  \/ RetryTimerFires
  \/ ReconnectTimerFires
  \/ ConnectSucceeds
  \/ ConnectFails
  \/ DisconnectDone
  \/ ConnectionDrop
  \/ DriverReconnect
  \/ ReachabilityChanges
  \/ Tick
  \/ \E r \in Slots : SubmitStart(r, TwoBodies)
  \/ \E r \in Slots : SaveSucceeds(r)
  \/ \E r \in Slots, kind \in {"validation", "io", "duplicate"} : SaveFails(r, kind)
  \/ \E admin \in BOOLEAN : ListStart(1, admin)
  \/ ListSucceeds(1)
  \/ ListFails(1)
  \/ \E route \in {"/", "/health"} : HealthRequest(route)

SpecServe == Init /\ [][ServeNext]_vars

\* Submits and concurrent lists on a server that has connected and whose
\* connection may drop and come back.
ListNext ==
  \/ ConnectionDrop
  \/ DriverReconnect
  \/ Tick
  \/ \E r \in Slots : SubmitStart(r, FewBodies)
  \/ \E r \in Slots : SaveSucceeds(r)
  \/ \E r \in Slots, kind \in {"validation", "io", "duplicate"} : SaveFails(r, kind)
  \/ \E l \in ListSlots, admin \in BOOLEAN : ListStart(l, admin)
  \/ \E l \in ListSlots : ListSucceeds(l)
  \/ \E l \in ListSlots : ListFails(l)

SpecList == InputInit /\ [][ListNext]_vars

\* The connection manager and the two status routes.
HealthNext ==
  \/ StartServer
  \/ RetryTimerFires
  \/ ReconnectTimerFires
  \/ ConnectSucceeds
  \/ ConnectFails
  \/ DisconnectDone
  \/ ConnectionDrop
  \/ DriverReconnect
  \/ ReachabilityChanges
  \/ \E route \in {"/", "/health"} : HealthRequest(route)

SpecHealth == Init /\ [][HealthNext]_vars

\* The connection manager, the CORS middleware and the status routes
\* behind it.
CorsNext ==
  \/ StartServer
  \/ RetryTimerFires
  \/ ReconnectTimerFires
  \/ ConnectSucceeds
  \/ ConnectFails
  \/ DisconnectDone
  \/ ConnectionDrop
  \/ DriverReconnect
  \/ ReachabilityChanges
  \/ \E origin \in Origins : CorsCheck(origin)
  \/ \E route \in {"/", "/health"} : HealthRequest(route)

SpecCors == Init /\ [][CorsNext]_vars

\* One saveUser(payload) call in the browser, for every payload over these
\* field values.
PayloadValues == {Absent, <<>>, <<" ">>, <<" ", "A", " ">>}

Payloads ==
  [name : PayloadValues, email : PayloadValues, phone : PayloadValues,
   school : PayloadValues, language : PayloadValues, answers : {Absent},
   score : {Absent, <<"7">>}]

ClientNext ==
  \/ \E p \in Payloads : SaveUser(p)
  \/ WakeUpSucceeds
  \/ WakeUpFails
  \/ PauseEnds
  \/ PostSucceeds
  \/ \E e \in PostErrors : PostFails(e[1], e[2])

SpecClient == InputInit /\ [][ClientNext]_vars

\* The connection manager alone: no request is made.
ConnNext ==
  \/ StartServer
  \/ RetryTimerFires
  \/ ReconnectTimerFires
  \/ ConnectSucceeds
  \/ ConnectFails
  \/ DisconnectDone
  \/ ConnectionDrop
  \/ DriverReconnect
  \/ ReachabilityChanges

SpecConn == Init /\ [][ConnNext]_vars

\* Start-up: the process runs its top-level code, and the first
\* mongoose.connect() settles one way or the other (server selection times
\* out after serverSelectionTimeoutMS).
BootFairness ==
  /\ WF_vars(StartServer)
  /\ WF_vars(ConnectSucceeds \/ ConnectFails)

FairSpecBoot == SpecConn /\ BootFairness

\* The event loop runs every due timer and every settled promise.
ConnFairness ==
  /\ WF_vars(StartServer)
  /\ WF_vars(RetryTimerFires)
  /\ WF_vars(ReconnectTimerFires)
  /\ WF_vars(ConnectSucceeds)
  /\ WF_vars(ConnectFails)
  /\ WF_vars(DisconnectDone)

FairSpecConn == SpecConn /\ ConnFairness

\* ------------------------------------------------------------- claims

\* C5 (as stated, safety half): every connect attempt that fails schedules
\* exactly one further connect attempt: when mongoose.connect() rejects, the
\* number of pending attempts grows by the number of attempts that failed.
C5_OneRetryPerFailure ==
  [][(readyState = Connecting /\ readyState' = Disconnected)
       => Pending' = Pending + nConn]_vars

\* C6 (as stated): whenever an established connection drops, a reconnect
\* attempt is scheduled.
C6_DropSchedulesReconnect ==
  [][(readyState = Connected /\ readyState' = Disconnected)
       => Pending' > Pending]_vars

\* C7 (as stated): connect() on a connected system disconnects, reconnects
\* and triggers no further connect attempt: the disconnect it performs
\* leaves the pending attempts as they were.
C7_ConnectIsIdempotent ==
  [][(readyState = Disconnecting /\ readyState' = Connecting)
       => Pending' = Pending]_vars

\* C8 (as stated): with no connection string configured the failure of
\* connect() is not retried: no connect attempt is ever pending.
C8_ConfigErrorNotRetried == ~uriSet => Pending = 0

\* C8 (amended): with no connection string configured connect() fails
\* before it touches the connection, and its catch block schedules the next
\* attempt like for any other failure: once started, exactly one retry is
\* pending at all times and the connection stays disconnected.
C8_ConfigErrorRetried ==
  (~uriSet /\ boot # "init") =>
    /\ retryTimers = 1
    /\ reconnTimers = 0
    /\ Running = 0
    /\ readyState = Disconnected
    /\ boot = "listening"

C8_Witness == ~uriSet /\ boot = "listening" /\ retryTimers = 1
\* A request leaves the start state in this step.
SubmitHandled(r) == sub[r].pc = "idle" /\ sub'[r].pc # "idle"
ListHandled(l) == lst[l].pc # "finding" /\ lst'[l] # lst[l]

\* C1: a submit, list or admin-list request handled while the connection
\* state is not Connected is answered 503 at once, and no store operation
\* is issued for it.
C1_Unready503 ==
  [][readyState # Connected =>
       /\ \A r \in Slots : SubmitHandled(r) =>
            /\ sub'[r].pc = "done"
            /\ sub'[r].status = 503
            /\ sub'[r].storeOps = 0
            /\ store' = store
       /\ \A l \in ListSlots : ListHandled(l) =>
            /\ lst'[l].pc = "done"
            /\ lst'[l].status = 503
            /\ lst'[l].storeOps = 0]_vars

C1_Witness ==
  /\ \E r \in Slots : sub[r].status = 503 /\ sub[r].body = GoodBody
  /\ \E l \in ListSlots : lst[l].status = 503 /\ lst[l].admin
  /\ readyState = Connecting

\* A required field is missing when it is absent, empty or blank.
IsBlank(v) == \A i \in 1..Len(v) : v[i] = " "
LacksField(b, f) == b[f] = Absent \/ IsBlank(b[f])
LackedFields(b) ==
  {RequiredFields[i] : i \in {j \in 1..Len(RequiredFields) : LacksField(b, RequiredFields[j])}}
Range(q) == {q[i] : i \in 1..Len(q)}

\* C2 (as stated): a submit handled while Connected whose body lacks a
\* required field is answered 400, and the `missing' list of the answer
\* holds exactly the names of the fields that are missing.
C2_MissingListed ==
  \A r \in Slots :
    (sub[r].pc # "idle" /\ sub[r].status # 503 /\ LackedFields(sub[r].body) # {}) =>
      /\ sub[r].status = 400
      /\ sub[r].missing # Absent
      /\ Range(sub[r].missing) = LackedFields(sub[r].body)

\* t is s without its surrounding blanks.
IsTrimOf(t, s) ==
  /\ t = <<>> \/ (t[1] # " " /\ t[Len(t)] # " ")
  /\ \E a \in 0..Len(s) :
       /\ a + Len(t) <= Len(s)
       /\ \A i \in 1..Len(s) :
            IF i > a /\ i <= a + Len(t) THEN s[i] = t[i - a] ELSE s[i] = " "

\* t is s with its capitals in lower case.
IsLowerOf(t, s) ==
  /\ Len(t) = Len(s)
  /\ \A i \in 1..Len(s) :
       /\ t[i] \notin {"A", "B"}
       /\ t[i] = s[i] \/ <<s[i], t[i]>> \in {<<"A", "a">>, <<"B", "b">>}

\* The record a valid draft is expected to give.
IsRecordOf(u, b) ==
  /\ IsTrimOf(u.name, b.name)
  /\ IsTrimOf(u.phone, b.phone)
  /\ IsTrimOf(u.school, b.school)
  /\ IsTrimOf(u.language, b.language)
  /\ \E t \in {<<>>} \cup {SubSeq(b.email, i, j) : i, j \in 1..Len(b.email)} :
       IsTrimOf(t, b.email) /\ IsLowerOf(u.email, t)
  /\ u.answers = (IF b.answers = Absent THEN <<>> ELSE b.answers)

\* C3: a list that follows the successful submit of a valid draft returns a
\* record for it with name, phone, school and language trimmed, email
\* trimmed and in lower case, and the answers in the order given (none when
\* the draft has none).
C3_ListReturnsNormalized ==
  \A l \in ListSlots : lst[l].status = 200 =>
    \A r \in lst[l].after :
      /\ LackedFields(sub[r].body) = {}
      /\ \E i \in 1..Len(lst[l].users) :
           /\ lst[l].users[i].id = sub[r].doc.id
           /\ IsRecordOf(lst[l].users[i], sub[r].body)

C3_Witness ==
  \E l \in ListSlots : \E r \in lst[l].after :
    /\ lst[l].status = 200
    /\ sub[r].body.email = <<" ", "A", " ">>
    /\ sub[r].body.name = <<" ", "A", " ">>
    /\ sub[r].body.answers = Absent
    /\ Len(lst[l].users) = 1

\* C4 (as stated): a submit whose save() fails, for whatever reason, is
\* answered 500.
C4_StoreFailureIs500 ==
  \A r \in Slots : sub[r].failure # "none" => sub[r].status = 500

\* The records in the store that request r built.
RecordsOf(r) ==
  {i \in 1..Len(store) : sub[r].doc.id # 0 /\ store[i].id = sub[r].doc.id}

\* C9: a submit is answered 201 exactly when one record built from its
\* draft is in the store; after a 503, 400 or 500 no record of the request
\* is in the store, then or later; and no request has more than one record.
C9_AckIffPersisted ==
  \A r \in Slots :
    /\ Cardinality(RecordsOf(r)) <= 1
    /\ sub[r].status = 201 <=> Cardinality(RecordsOf(r)) = 1
    /\ \A i \in RecordsOf(r) : store[i] = sub[r].doc /\ IsRecordOf(store[i], sub[r].body)
    /\ sub[r].status \in {503, 400, 500} => RecordsOf(r) = {}

C9_Witness ==
  \E r, q \in Slots :
    /\ sub[r].status = 500 /\ sub[r].failure = "io"
    /\ sub[q].status = 201 /\ q > r
    /\ readyState = Disconnected

\* C10: when the submittedAt of the stored records are pairwise distinct, a
\* successful list or admin-list returns every record stored so far, newest
\* first, whatever the order in which the writes completed.
C10_NewestFirst ==
  \A l \in ListSlots : lst[l].status = 200 =>
    LET u == lst[l].users IN
      /\ lst[l].count = Len(u)
      /\ Len(u) <= Len(store)
      /\ Range(u) = {store[i] : i \in 1..Len(u)}
      /\ (\A i, j \in 1..Len(u) : i # j => u[i].submittedAt # u[j].submittedAt)
           => \A i \in 1..(Len(u) - 1) : u[i].submittedAt > u[i + 1].submittedAt

\* The write of the request stamped first completed last.
C10_Witness ==
  \E l \in ListSlots :
    /\ lst[l].status = 200
    /\ Len(lst[l].users) = 2
    /\ Len(store) = 2
    /\ store[1].submittedAt > store[2].submittedAt
    /\ store[1].id > store[2].id

\* Two answered list requests saw the same store: the store only grows and
\* a find returns all of it, so they return equally many records.
SameStore(l, m) ==
  /\ lst[l].status = 200
  /\ lst[m].status = 200
  /\ Len(lst[l].users) = Len(lst[m].users)

\* C11 (as stated): two list calls answered while Connected with no insert
\* completing between them return the same records in the same order and
\* the same count, and each count is the length of the sequence returned.
C11_ListIdempotent ==
  \A l, m \in ListSlots :
    (SameStore(l, m) /\ ~lst[l].admin /\ ~lst[m].admin) =>
      /\ lst[l].users = lst[m].users
      /\ lst[l].count = lst[m].count
      /\ lst[l].count = Len(lst[l].users)

\* No integer can be read from s: no digit of s is preceded by blanks and at
\* most one sign only.
Unparsable(s) ==
  \/ s = Absent
  \/ ~ \E k \in 1..Len(s) :
         /\ s[k] \in Digits
         /\ \A i \in 1..(k - 1) : s[i] = " " \/ (i = k - 1 /\ s[i] \in {"-", "+"})

\* C12: a submit handled while Connected that has its required fields and
\* whose score is absent or unparsable is not rejected on account of the
\* score: its document is built with score 0, the only answer other than
\* 201 is the 500 of a store that is down, and once answered 201 the
\* persisted record has score 0.
C12_UnparsableScoreIsZero ==
  \A r \in Slots :
    (/\ sub[r].pc # "idle"
     /\ sub[r].status # 503
     /\ LackedFields(sub[r].body) = {}
     /\ Unparsable(sub[r].body.score)) =>
      /\ sub[r].doc.score = 0
      /\ sub[r].failure \in {"none", "io"}
      /\ sub[r].pc = "done" => (sub[r].status = 201 \/ sub[r].failure = "io")
      /\ sub[r].status = 201 =>
           \E i \in 1..Len(store) : store[i].id = sub[r].doc.id /\ store[i].score = 0

C12_Witness ==
  \E r \in Slots :
    /\ sub[r].status = 201
    /\ sub[r].body.score = <<"x", "1">>
    /\ Len(store) = 1
    /\ store[1].score = 0

\* C13: no step of the server (a submit, a list or admin-list, a status
\* request, a connection event) removes or changes a persisted record, and
\* the store gains a record only in the step that answers a submit 201,
\* the record being that submit's document.
C13_StoreOnlyGrows ==
  [][/\ Len(store') >= Len(store)
     /\ \A i \in 1..Len(store) : store'[i] = store[i]
     /\ Len(store') > Len(store) =>
          /\ Len(store') = Len(store) + 1
          /\ \E r \in Slots :
               /\ sub[r].pc = "saving"
               /\ sub'[r].status = 201
               /\ store'[Len(store')] = sub[r].doc]_vars

\* Two records outlive a lost connection, a list and a status request.
C13_Witness ==
  /\ Len(store) = 2
  /\ store[1].id # store[2].id
  /\ readyState = Disconnected
  /\ lst[1].status = 200
  /\ hlt.status = 200
  /\ hlt.database = "Disconnected"

\* C14: a submit goes from its start through the readiness check either to
\* the answer 503, or through validation either to the answer 400, or to
\* one store operation and from there to the answer of a success (201) or
\* of a failure.  An answered request is never touched again: one answer,
\* the readiness check and the store operation at most once, no retry.
C14_OneOutcomePerRequest ==
  [][\A r \in Slots :
       /\ sub[r].pc = "done" => sub'[r] = sub[r]
       /\ (sub[r].pc = "idle" /\ sub'[r].pc # "idle") =>
            /\ sub[r].status = 0 /\ sub[r].storeOps = 0
            /\ IF readyState # Connected
                 THEN sub'[r].pc = "done" /\ sub'[r].status = 503 /\ sub'[r].storeOps = 0
                 ELSE \/ sub'[r].pc = "done" /\ sub'[r].status = 400 /\ sub'[r].storeOps = 0
                      \/ sub'[r].pc = "saving" /\ sub'[r].status = 0 /\ sub'[r].storeOps = 1
       /\ (sub[r].pc = "saving" /\ sub'[r] # sub[r]) =>
            /\ sub'[r].pc = "done"
            /\ sub'[r].storeOps = 1
            /\ sub'[r].status \in {201, 400, 500}
            /\ sub'[r].status = 201 <=> sub'[r].failure = "none"]_vars

C14_Witness ==
  /\ sub[1].status = 400 /\ sub[1].storeOps = 0
  /\ sub[2].status = 500 /\ sub[2].failure = "io" /\ sub[2].storeOps = 1
  /\ readyState = Connected

\* The connection manager's state: the connection state, the pending
\* connect attempts and the attempts under way.
ConnectionState == <<readyState, hasClient, retryTimers, reconnTimers, nDisc, nConn>>

\* C15: a step in which a submit, list, admin-list, root or health request
\* is handled or answered, whatever the answer, leaves the connection state
\* and the pending reconnect timers as they were; they change only in
\* steps of the connection manager.
C15_HandlersOnlyRead ==
  [][(sub' # sub \/ lst' # lst \/ hlt' # hlt \/ store' # store) =>
       ConnectionState' = ConnectionState]_vars

\* Each kind of request has been answered while a connect attempt is under
\* way and a timer is pending.
C15_Witness ==
  /\ readyState = Connecting
  /\ Pending > 0
  /\ \E r \in Slots : sub[r].status = 503
  /\ \E r \in Slots : sub[r].status = 201
  /\ lst[1].status = 503
  /\ hlt.status = 200 /\ hlt.database = "Connecting"

\* C16 (as stated): an admin-list and a list answered from the same store
\* content return the same count and the same records in the same order,
\* field for field.  (That both answer 503 whenever the connection is not
\* Connected is part of C1.)
C16_AdminListSameAsList ==
  \A l, m \in ListSlots :
    (SameStore(l, m) /\ lst[l].admin /\ ~lst[m].admin) =>
      /\ lst[l].status = lst[m].status
      /\ lst[l].count = lst[m].count
      /\ lst[l].users = lst[m].users
      /\ lst[l].users # <<>> => lst[l].versionKey = lst[m].versionKey

\* The four connection states by name.
NameOf ==
  [rs \in {Disconnected, Connected, Connecting, Disconnecting} |->
     IF rs = Disconnected THEN "Disconnected"
     ELSE IF rs = Connected THEN "Connected"
     ELSE IF rs = Connecting THEN "Connecting"
     ELSE "Disconnecting"]

\* C17 (as stated): GET / and GET /health answer 200 in every connection
\* state, and the `database' field of the answer names the connection state
\* at the moment of the request.
C17_StatusRoutesNameState ==
  [][hlt' # hlt =>
       /\ hlt'.status = 200
       /\ hlt'.database = NameOf[readyState]]_vars

\* C18: whatever becomes of the connect attempts (no connection string, a
\* connect that fails), connectDB() settles without raising: a failing
\* attempt leaves a server that awaited it listening, and the server comes
\* to listen and goes on listening in every run.
C18_ListensWhateverHappens ==
  /\ [][(readyState = Connecting /\ readyState' = Disconnected) =>
          boot' = "listening"]_vars
  /\ [][boot = "listening" => boot' = "listening"]_vars
  /\ <>(boot = "listening")

\* The server that awaited connectDB() listens after the connect failed.
C18_Witness ==
  /\ variant = 2
  /\ uriSet
  /\ boot = "listening"
  /\ readyState = Disconnected
  /\ ~hasClient
  /\ retryTimers = 1

\* C19: the submittedAt and the id of a record are the server's clock and
\* the store's next id at the moment the submit is handled, whatever the
\* body holds, keys named submittedAt and id included; so two submits
\* handled in the same server state get the same submittedAt and id.  The
\* record is persisted with these values.
C19_StampAndIdFromServer ==
  [][\A r \in Slots :
       /\ (sub[r].pc = "idle" /\ sub'[r].pc = "saving") =>
            /\ sub'[r].doc.submittedAt = clock
            /\ sub'[r].doc.id = nextId
       /\ (sub[r].pc = "saving" /\ sub'[r].status = 201) =>
            /\ store'[Len(store')].submittedAt = sub[r].doc.submittedAt
            /\ store'[Len(store')].id = sub[r].doc.id]_vars

\* A draft that names its own submittedAt and id has been persisted.
C19_Witness ==
  \E r \in Slots, i \in 1..Len(store) :
    /\ sub[r].status = 201
    /\ sub[r].body.submittedAt = <<"7">>
    /\ sub[r].body.id = <<"7">>
    /\ store[i].id = sub[r].doc.id
    /\ store[i].id # 7
    /\ store[i].submittedAt # 7

\* A draft with name, phone and language and neither email nor school.
OnlyNamePhoneLanguage(b) ==
  /\ ~LacksField(b, "name")
  /\ ~LacksField(b, "phone")
  /\ ~LacksField(b, "language")
  /\ b.email = Absent
  /\ b.school = Absent

\* C20 (as stated): on a Connected server with an empty store, a submit
\* whose body has non-blank name, phone and language only is answered 201
\* (unless the store itself fails), and a list that follows returns count 1
\* with the record's school the empty string.
C20_ThreeFieldDraftAccepted ==
  \A r \in Slots :
    (/\ sub[r].pc = "done"
     /\ sub[r].status # 503
     /\ sub[r].failure # "io"
     /\ OnlyNamePhoneLanguage(sub[r].body)) =>
      /\ sub[r].status = 201
      /\ \A l \in ListSlots : (lst[l].status = 200 /\ r \in lst[l].after) =>
           /\ lst[l].count = 1
           /\ lst[l].users[1].school = <<>>

\* C21 (as stated): the connection manager never tears down a healthy
\* connection by itself: a Connected connection stays Connected until it is
\* lost from outside (it is then Disconnected at once); no timer left over
\* from an earlier failure or disconnect makes it start closing.
C21_HealthyConnectionKept ==
  [][readyState = Connected => readyState' \in {Connected, Disconnected}]_vars

\* C22 (as stated): the pending retry timers and the connectDB invocations
\* under way never number more than one.
C22_OneAttemptAtATime == Pending + Running <= 1

\* The origin matches no entry of variant 1's allow-list, stated on the
\* origins tried: it is none of the five listed strings and not a preview
\* deployment's address.
MatchesNothing(origin) ==
  origin \in { <<VercelPrefix, VercelSuffix, ".evil.example">>,
               <<"x", VercelPrefix, VercelSuffix>>,
               <<VercelPrefix>>,
               <<"http://evil.example">> }

\* C23: whatever the Origin header, one that matches nothing on the
\* allow-list included, the origin check of the first variant calls
\* callback(null, true): no error, so no 403 'CORS Error' answer.
C23_CorsAllowsEveryOrigin ==
  (variant = 1 /\ cors.checked) =>
    /\ ~cors.error
    /\ cors.allow
    /\ cors.status # 403
    /\ MatchesNothing(cors.origin) => ~cors.listed

C23_Witness ==
  /\ variant = 1
  /\ cors.checked
  /\ cors.origin = <<VercelPrefix, VercelSuffix, ".evil.example">>
  /\ cors.allow
  /\ ~cors.listed

\* The five fields of the payload are there and non-blank.
FiveFieldsGiven(p) ==
  \A i \in 1..Len(RequiredFields) : ~LacksField(p, RequiredFields[i])

\* C24: saveUser(payload) with the five fields non-blank sends one wake-up
\* and then POST /api/users exactly once, whether the wake-up succeeded or
\* failed, and never a second POST after a failure; with a field missing
\* or blank it sends nothing, neither wake-up nor POST.
C24_ClientPostsOnce ==
  /\ client.posts <= 1
  /\ client.wakeUps <= 1
  /\ client.pc # "idle" =>
       IF FiveFieldsGiven(client.payload)
         THEN /\ client.wakeUps = 1
              /\ client.pc \in {"posting", "done"} => client.posts = 1
              /\ client.pc \in {"waking", "pausing"} => client.posts = 0
         ELSE /\ client.pc = "done"
              /\ client.outcome = "rejected"
              /\ client.wakeUps = 0
              /\ client.posts = 0

\* The wake-up failed, the POST was sent once and failed with a 503.
C24_Witness ==
  /\ client.pc = "done"
  /\ client.woke = "failed"
  /\ client.posts = 1
  /\ client.outcome = "rejected"
  /\ client.message = "database"
====
